---- MODULE Spec2Model ----
(***************************************************************************)
(* CampusCore (src/main.py): users, students and the chat box, one action  *)
(* per HTTP handler.  The SQLite tables are the sets users and students,   *)
(* the module-level list chat_messages is a sequence.  Every action        *)
(* records the request it served in req and the reply in resp.             *)
(*                                                                         *)
(* Text is a sequence of character codes, so that str.lower() is computed  *)
(* and not assumed.  Optional[T] is a sequence of length at most one:      *)
(* <<>> is None, <<v>> is the value v.  An API key is a number: 0 is the   *)
(* missing (or empty) X-API-Key header, and secrets.token_hex(16) is the   *)
(* next unused number (a collision of two 128-bit random keys is not       *)
(* modelled).  User.id is read by no handler and is left out.  A handler   *)
(* runs as one step, and requests are well typed (FastAPI answers the      *)
(* others with 422 before the handler runs).                               *)
(***************************************************************************)
EXTENDS Integers, Sequences, FiniteSets

VARIABLES users, students, chat_messages, nextKey, posted, req, resp

vars == <<users, students, chat_messages, nextKey, posted, req, resp>>

\* ---- program constants ----
ROLE_GUEST == 100
ROLE_VIP == 200
ROLE_OWNER == 300
ChatCap == 200
ChatWindow == 100

\* ---- bounds of the model ----
MaxKeys == 2
UsersMaxKeys == 3
MaxStudentId == 3
MaxPosts == 205
MainMaxId == 1
MainMaxPosts == 1

\* ---- text ----
Lower(s) == [i \in DOMAIN s |-> IF s[i] \in 65..90 THEN s[i] + 32 ELSE s[i]]

\* "anirudh", "Anirudh", "Bob", "Al"; the names requests carry: with "bob"
OwnerName == <<97, 110, 105, 114, 117, 100, 104>>
OwnerNameCaps == <<65, 110, 105, 114, 117, 100, 104>>
Bob == <<66, 111, 98>>
Al == <<65, 108>>
UserNames == {OwnerNameCaps, <<98, 111, 98>>, Bob, Al}
OwnerPassword == "Aaradhya2509"
Passwords == {OwnerPassword, "pw"}
Opt(S) == {<<>>} \cup {<<v>> : v \in S}
ApiKeys(maxKey) == 0..maxKey
RoleInputs == {ROLE_GUEST, ROLE_VIP, ROLE_OWNER, 0}

hash_password(password) == <<"sha256", password>>

verify_password(password, hashed) == hash_password(password) = hashed

\* ---- records ----
NoUser == [username |-> <<>>, hashed_password |-> <<>>, role |-> 0,
           api_key |-> 0, suspended |-> FALSE]

NoReq == [op |-> "", api_key |-> 0, username |-> <<>>, password |-> "",
          new_role |-> 0, student_id |-> 0, name |-> <<>>, age |-> <<>>,
          course |-> <<>>, message |-> 0]

NoResp == [status |-> 0, username |-> <<>>, api_key |-> 0, role |-> 0,
           users |-> {}, students |-> {}, chat |-> <<>>]

Request(op, api_key) == [NoReq EXCEPT !.op = op, !.api_key = api_key]

Reply(status) == [NoResp EXCEPT !.status = status]

\* ---- queries ----
get_user_by_username(us, username) ==
  IF \E u \in us : u.username = Lower(username)
  THEN CHOOSE u \in us : u.username = Lower(username)
  ELSE NoUser

get_user_by_api_key(us, api_key) ==
  IF \E u \in us : u.api_key = api_key
  THEN CHOOSE u \in us : u.api_key = api_key
  ELSE NoUser

create_owner_user(us, key) ==
  IF get_user_by_username(us, OwnerName) = NoUser
  THEN us \cup {[username |-> OwnerName,
                 hashed_password |-> hash_password(OwnerPassword),
                 role |-> ROLE_OWNER, api_key |-> key, suspended |-> FALSE]}
  ELSE us

get_current_user_nosuspend(us, api_key) ==
  LET user == get_user_by_api_key(us, api_key)
  IN IF api_key = 0 THEN [status |-> 401, user |-> NoUser]
     ELSE IF user = NoUser THEN [status |-> 401, user |-> NoUser]
     ELSE [status |-> 200, user |-> user]

\* The dependency every protected handler runs first: 401 without a key or
\* with an unknown one, 403 for a suspended user, else the user.
get_current_user(us, api_key) ==
  LET user == get_user_by_api_key(us, api_key)
  IN IF api_key = 0 THEN [status |-> 401, user |-> NoUser]
     ELSE IF user = NoUser THEN [status |-> 401, user |-> NoUser]
     ELSE IF user.suspended THEN [status |-> 403, user |-> NoUser]
     ELSE [status |-> 200, user |-> user]

session_get(ss, student_id) ==
  IF \E s \in ss : s.id = student_id
  THEN {CHOOSE s \in ss : s.id = student_id}
  ELSE {}

\* SQLite gives an INTEGER PRIMARY KEY left unset one more than the largest
\* rowid in the table, 1 in an empty table.
NextRowId_smallest(ss) ==
  CHOOSE n \in 1..(Cardinality(ss) + 1) :
    /\ \A s \in ss : s.id # n
    /\ \A m \in 1..(n - 1) : \E s \in ss : s.id = m

NextRowId(ss) ==
  IF ss = {} THEN 1
  ELSE (CHOOSE s \in ss : \A t \in ss : t.id <= s.id).id + 1

UserView(us) ==
  {[username |-> u.username, role |-> u.role, suspended |-> u.suspended] : u \in us}

Last(s, n) == SubSeq(s, IF Len(s) > n THEN Len(s) - n + 1 ELSE 1, Len(s))

Init ==
  /\ users = create_owner_user({}, 1)
  /\ students = {}
  /\ chat_messages = <<>>
  /\ nextKey = 2
  /\ posted = <<>>
  /\ req = Request("on_startup", 0)
  /\ resp = NoResp

\* ---- user management ----

register_keeps_case(username, password) ==
  LET hashed == hash_password(password)
      user == [username |-> username, hashed_password |-> hashed,
               role |-> ROLE_GUEST, api_key |-> nextKey, suspended |-> FALSE]
  IN /\ req' = [Request("register", 0) EXCEPT !.username = username,
                                               !.password = password]
     /\ IF \E u \in users : u.username = username
        THEN /\ resp' = Reply(400)
             /\ UNCHANGED <<users, nextKey>>
        ELSE /\ users' = users \cup {user}
             /\ nextKey' = nextKey + 1
             /\ resp' = [Reply(200) EXCEPT !.username = user.username,
                                           !.api_key = user.api_key,
                                           !.role = user.role]
     /\ UNCHANGED <<students, chat_messages, posted>>

register(username, password) ==
  LET username_lower == Lower(username)
      hashed == hash_password(password)
      user == [username |-> username_lower, hashed_password |-> hashed,
               role |-> ROLE_GUEST, api_key |-> nextKey, suspended |-> FALSE]
  IN /\ req' = [Request("register", 0) EXCEPT !.username = username,
                                               !.password = password]
     /\ IF get_user_by_username(users, username_lower) # NoUser
        THEN /\ resp' = Reply(400)
             /\ UNCHANGED <<users, nextKey>>
        ELSE /\ users' = users \cup {user}
             /\ nextKey' = nextKey + 1
             /\ resp' = [Reply(200) EXCEPT !.username = user.username,
                                           !.api_key = user.api_key,
                                           !.role = user.role]
     /\ UNCHANGED <<students, chat_messages, posted>>

login_issues_key(username, password) ==
  LET username_lower == Lower(username)
      user == get_user_by_username(users, username_lower)
      fresh == [user EXCEPT !.api_key = nextKey]
  IN /\ req' = [Request("login", 0) EXCEPT !.username = username,
                                            !.password = password]
     /\ IF user = NoUser \/ ~verify_password(password, user.hashed_password)
        THEN resp' = Reply(401) /\ UNCHANGED <<users, nextKey>>
        ELSE IF user.suspended
        THEN resp' = Reply(403) /\ UNCHANGED <<users, nextKey>>
        ELSE /\ nextKey <= UsersMaxKeys
             /\ users' = (users \ {user}) \cup {fresh}
             /\ nextKey' = nextKey + 1
             /\ resp' = [Reply(200) EXCEPT !.username = fresh.username,
                                           !.api_key = fresh.api_key,
                                           !.role = fresh.role]
     /\ UNCHANGED <<students, chat_messages, posted>>

login(username, password) ==
  LET username_lower == Lower(username)
      user == get_user_by_username(users, username_lower)
  IN /\ req' = [Request("login", 0) EXCEPT !.username = username,
                                            !.password = password]
     /\ resp' = IF user = NoUser \/ ~verify_password(password, user.hashed_password)
                THEN Reply(401)
                ELSE IF user.suspended THEN Reply(403)
                ELSE [Reply(200) EXCEPT !.username = user.username,
                                        !.api_key = user.api_key,
                                        !.role = user.role]
     /\ UNCHANGED <<users, students, chat_messages, nextKey, posted>>

list_users(api_key) ==
  LET auth == get_current_user(users, api_key)
  IN /\ req' = Request("list_users", api_key)
     /\ resp' = IF auth.status # 200 THEN Reply(auth.status)
                ELSE IF auth.user.role # ROLE_OWNER THEN Reply(403)
                ELSE [Reply(200) EXCEPT !.users = UserView(users)]
     /\ UNCHANGED <<users, students, chat_messages, nextKey, posted>>

delete_user(api_key, username) ==
  LET auth == get_current_user(users, api_key)
      username_lower == Lower(username)
      user == get_user_by_username(users, username_lower)
      status == IF auth.status # 200 THEN auth.status
                ELSE IF auth.user.role # ROLE_OWNER THEN 403
                ELSE IF user = NoUser THEN 404
                ELSE IF user.role = ROLE_OWNER THEN 403
                ELSE 200
  IN /\ req' = [Request("delete_user", api_key) EXCEPT !.username = username]
     /\ resp' = Reply(status)
     /\ users' = IF status = 200 THEN users \ {user} ELSE users
     /\ UNCHANGED <<students, chat_messages, nextKey, posted>>

suspend_user(api_key, username) ==
  LET auth == get_current_user(users, api_key)
      username_lower == Lower(username)
      user == get_user_by_username(users, username_lower)
      status == IF auth.status # 200 THEN auth.status
                ELSE IF auth.user.role # ROLE_OWNER THEN 403
                ELSE IF user = NoUser THEN 404
                ELSE IF user.role = ROLE_OWNER THEN 403
                ELSE 200
  IN /\ req' = [Request("suspend_user", api_key) EXCEPT !.username = username]
     /\ resp' = Reply(status)
     /\ users' = IF status = 200
                 THEN (users \ {user}) \cup {[user EXCEPT !.suspended = TRUE]}
                 ELSE users
     /\ UNCHANGED <<students, chat_messages, nextKey, posted>>

unsuspend_user(api_key, username) ==
  LET auth == get_current_user(users, api_key)
      username_lower == Lower(username)
      user == get_user_by_username(users, username_lower)
      status == IF auth.status # 200 THEN auth.status
                ELSE IF auth.user.role # ROLE_OWNER THEN 403
                ELSE IF user = NoUser THEN 404
                ELSE 200
  IN /\ req' = [Request("unsuspend_user", api_key) EXCEPT !.username = username]
     /\ resp' = Reply(status)
     /\ users' = IF status = 200
                 THEN (users \ {user}) \cup {[user EXCEPT !.suspended = FALSE]}
                 ELSE users
     /\ UNCHANGED <<students, chat_messages, nextKey, posted>>

change_user_role_any_target(api_key, username, new_role) ==
  LET auth == get_current_user(users, api_key)
      username_lower == Lower(username)
      user == get_user_by_username(users, username_lower)
      status == IF auth.status # 200 THEN auth.status
                ELSE IF auth.user.role # ROLE_OWNER THEN 403
                ELSE IF new_role = ROLE_OWNER THEN 403
                ELSE IF new_role \notin {ROLE_GUEST, ROLE_VIP} THEN 400
                ELSE IF user = NoUser THEN 404
                ELSE 200
  IN /\ req' = [Request("change_user_role", api_key) EXCEPT !.username = username,
                                                             !.new_role = new_role]
     /\ resp' = Reply(status)
     /\ users' = IF status = 200
                 THEN (users \ {user}) \cup {[user EXCEPT !.role = new_role]}
                 ELSE users
     /\ UNCHANGED <<students, chat_messages, nextKey, posted>>

change_user_role(api_key, username, new_role) ==
  LET auth == get_current_user(users, api_key)
      username_lower == Lower(username)
      user == get_user_by_username(users, username_lower)
      status == IF auth.status # 200 THEN auth.status
                ELSE IF auth.user.role # ROLE_OWNER THEN 403
                ELSE IF username_lower = auth.user.username THEN 403
                ELSE IF new_role = ROLE_OWNER THEN 403
                ELSE IF new_role \notin {ROLE_GUEST, ROLE_VIP} THEN 400
                ELSE IF user = NoUser THEN 404
                ELSE 200
  IN /\ req' = [Request("change_user_role", api_key) EXCEPT !.username = username,
                                                             !.new_role = new_role]
     /\ resp' = Reply(status)
     /\ users' = IF status = 200
                 THEN (users \ {user}) \cup {[user EXCEPT !.role = new_role]}
                 ELSE users
     /\ UNCHANGED <<students, chat_messages, nextKey, posted>>

\* ---- student management ----

create_student(api_key, name, age, course) ==
  LET auth == get_current_user(users, api_key)
      new_student == [id |-> NextRowId(students), name |-> name, age |-> age,
                      course |-> course]
      status == IF auth.status # 200 THEN auth.status
                ELSE IF auth.user.role < ROLE_VIP THEN 403
                ELSE 200
  IN /\ req' = [Request("create_student", api_key) EXCEPT !.name = <<name>>,
                                                           !.age = <<age>>,
                                                           !.course = <<course>>]
     /\ resp' = IF status = 200
                THEN [Reply(200) EXCEPT !.students = {new_student}]
                ELSE Reply(status)
     /\ students' = IF status = 200 THEN students \cup {new_student} ELSE students
     /\ UNCHANGED <<users, chat_messages, nextKey, posted>>

\* "if course:" and "if age:" test truthiness: None, "" and 0 add no WHERE
\* clause.  SQLite compares text with = byte by byte.
list_students(api_key, course, age) ==
  LET auth == get_current_user(users, api_key)
      by_course == IF course # <<>> /\ course[1] # <<>>
                   THEN {s \in students : s.course = course[1]}
                   ELSE students
      by_age == IF age # <<>> /\ age[1] # 0
                THEN {s \in by_course : s.age = age[1]}
                ELSE by_course
  IN /\ req' = [Request("list_students", api_key) EXCEPT !.course = course,
                                                          !.age = age]
     /\ resp' = IF auth.status # 200 THEN Reply(auth.status)
                ELSE [Reply(200) EXCEPT !.students = by_age]
     /\ UNCHANGED <<users, students, chat_messages, nextKey, posted>>

get_student(api_key, student_id) ==
  LET auth == get_current_user(users, api_key)
      student == session_get(students, student_id)
  IN /\ req' = [Request("get_student", api_key) EXCEPT !.student_id = student_id]
     /\ resp' = IF auth.status # 200 THEN Reply(auth.status)
                ELSE IF student = {} THEN Reply(404)
                ELSE [Reply(200) EXCEPT !.students = student]
     /\ UNCHANGED <<users, students, chat_messages, nextKey, posted>>

Updated(s, name, age, course) ==
  [id |-> s.id,
   name |-> IF name # <<>> THEN name[1] ELSE s.name,
   age |-> IF age # <<>> THEN age[1] ELSE s.age,
   course |-> IF course # <<>> THEN course[1] ELSE s.course]

update_student_lookup_first(api_key, student_id, name, age, course) ==
  LET auth == get_current_user(users, api_key)
      student == session_get(students, student_id)
      status == IF auth.status # 200 THEN auth.status
                ELSE IF student = {} THEN 404
                ELSE IF auth.user.role < ROLE_VIP THEN 403
                ELSE 200
      new == {Updated(s, name, age, course) : s \in student}
  IN /\ req' = [Request("update_student", api_key) EXCEPT !.student_id = student_id,
                                                           !.name = name,
                                                           !.age = age,
                                                           !.course = course]
     /\ resp' = IF status = 200 THEN [Reply(200) EXCEPT !.students = new]
                ELSE Reply(status)
     /\ students' = IF status = 200 THEN (students \ student) \cup new ELSE students
     /\ UNCHANGED <<users, chat_messages, nextKey, posted>>

update_student(api_key, student_id, name, age, course) ==
  LET auth == get_current_user(users, api_key)
      student == session_get(students, student_id)
      status == IF auth.status # 200 THEN auth.status
                ELSE IF auth.user.role < ROLE_VIP THEN 403
                ELSE IF student = {} THEN 404
                ELSE 200
      new == {Updated(s, name, age, course) : s \in student}
  IN /\ req' = [Request("update_student", api_key) EXCEPT !.student_id = student_id,
                                                           !.name = name,
                                                           !.age = age,
                                                           !.course = course]
     /\ resp' = IF status = 200 THEN [Reply(200) EXCEPT !.students = new]
                ELSE Reply(status)
     /\ students' = IF status = 200 THEN (students \ student) \cup new ELSE students
     /\ UNCHANGED <<users, chat_messages, nextKey, posted>>

delete_student(api_key, student_id) ==
  LET auth == get_current_user(users, api_key)
      student == session_get(students, student_id)
      status == IF auth.status # 200 THEN auth.status
                ELSE IF auth.user.role < ROLE_VIP THEN 403
                ELSE IF student = {} THEN 404
                ELSE 200
  IN /\ req' = [Request("delete_student", api_key) EXCEPT !.student_id = student_id]
     /\ resp' = Reply(status)
     /\ students' = IF status = 200 THEN students \ student ELSE students
     /\ UNCHANGED <<users, chat_messages, nextKey, posted>>

\* ---- chat box ----

\* No Depends(get_current_user): the handler never looks at the key sent.
get_chat_messages(api_key) ==
  /\ req' = Request("get_chat_messages", api_key)
  /\ resp' = [Reply(200) EXCEPT !.chat = Last(chat_messages, ChatWindow)]
  /\ UNCHANGED <<users, students, chat_messages, nextKey, posted>>

post_chat_message_drops_newest(api_key, message) ==
  LET auth == get_current_user(users, api_key)
      entry == [username |-> auth.user.username, message |-> message]
      appended == Append(chat_messages, entry)
  IN /\ req' = [Request("post_chat_message", api_key) EXCEPT !.message = message]
     /\ resp' = Reply(auth.status)
     /\ IF auth.status = 200
        THEN /\ chat_messages' = IF Len(appended) > ChatCap
                                 THEN SubSeq(appended, 1, ChatCap)
                                 ELSE appended
             /\ posted' = Append(posted, entry)
        ELSE UNCHANGED <<chat_messages, posted>>
     /\ UNCHANGED <<users, students, nextKey>>

\* posted is the history of the posts this process completed.
post_chat_message(api_key, message) ==
  LET auth == get_current_user(users, api_key)
      entry == [username |-> auth.user.username, message |-> message]
      appended == Append(chat_messages, entry)
  IN /\ req' = [Request("post_chat_message", api_key) EXCEPT !.message = message]
     /\ resp' = Reply(auth.status)
     /\ IF auth.status = 200
        THEN /\ chat_messages' = IF Len(appended) > ChatCap
                                 THEN Tail(appended)
                                 ELSE appended
             /\ posted' = Append(posted, entry)
        ELSE UNCHANGED <<chat_messages, posted>>
     /\ UNCHANGED <<users, students, nextKey>>

\* ---- process restart ----

on_startup_resets_owner ==
  LET owner == get_user_by_username(users, OwnerName)
  IN /\ req' = Request("on_startup", 0)
     /\ resp' = NoResp
     /\ users' = create_owner_user(users \ {owner}, nextKey)
     /\ nextKey' = nextKey + 1
     /\ chat_messages' = <<>>
     /\ posted' = <<>>
     /\ UNCHANGED students

\* A new process: the module-level chat_messages list starts empty, the
\* tables of students.sqlite are as the last process left them.
on_startup ==
  /\ req' = Request("on_startup", 0)
  /\ resp' = NoResp
  /\ users' = create_owner_user(users, nextKey)
  /\ nextKey' = IF users' = users THEN nextKey ELSE nextKey + 1
  /\ chat_messages' = <<>>
  /\ posted' = <<>>
  /\ UNCHANGED students

\* ---- specifications ----

\* "CS", "cs"
CS == <<67, 83>>
cs == <<99, 115>>

\* A registration that would store a user needs an unused key below the bound.
UserActions(maxKey, names, newPasswords, passwords) ==
  \/ \E u \in names, p \in newPasswords :
       /\ nextKey <= maxKey \/ get_user_by_username(users, u) # NoUser
       /\ register(u, p)
  \/ \E u \in names, p \in passwords : login(u, p)
  \/ \E k \in ApiKeys(maxKey) : list_users(k)
  \/ \E k \in ApiKeys(maxKey), u \in names : delete_user(k, u)
  \/ \E k \in ApiKeys(maxKey), u \in names : suspend_user(k, u)
  \/ \E k \in ApiKeys(maxKey), u \in names : unsuspend_user(k, u)
  \/ \E k \in ApiKeys(maxKey), u \in names, r \in RoleInputs :
       change_user_role(k, u, r)

\* creates: <<name, age, course>>; filters: <<course, age>>, both optional;
\* updates: <<name, age, course>>, all optional.
StudentActions(keys, maxId, creates, filters, updates) ==
  \/ \E k \in keys, c \in creates :
       NextRowId(students) <= maxId /\ create_student(k, c[1], c[2], c[3])
  \/ \E k \in keys, f \in filters : list_students(k, f[1], f[2])
  \/ \E k \in keys, i \in 1..maxId : get_student(k, i)
  \/ \E k \in keys, i \in 1..maxId, u \in updates :
       update_student(k, i, u[1], u[2], u[3])
  \/ \E k \in keys, i \in 1..maxId : delete_student(k, i)

ChatActions(keys, maxPosts, messages) ==
  \/ \E k \in keys : get_chat_messages(k)
  \/ \E k \in keys, m \in messages :
       Len(posted) < maxPosts /\ post_chat_message(k, m)

\* Every handler, and the restart of the process.
Next ==
  \/ UserActions(MaxKeys, {OwnerNameCaps, Bob}, {"pw"}, Passwords)
  \/ StudentActions(ApiKeys(MaxKeys), MainMaxId, {<<"ann", 20, CS>>},
                    {<< <<>>, <<>> >>, << <<CS>>, <<20>> >>},
                    {<< <<>>, <<0>>, <<>> >>})
  \/ ChatActions(ApiKeys(MaxKeys), MainMaxPosts, {1})
  \/ on_startup

Spec == Init /\ [][Next]_vars

\* User management alone, with more names and passwords.
NextUsers ==
  \/ UserActions(UsersMaxKeys, UserNames, {"pw"}, Passwords)
  \/ on_startup

SpecUsers == Init /\ [][NextUsers]_vars

\* The student registry used by the owner and by a caller without a key.
NextStudents ==
  StudentActions({0, 1}, MaxStudentId,
                 {"ann"} \X {0, 20} \X {CS, cs},
                 Opt({CS, cs}) \X Opt({0, 20}),
                 {<< <<>>, <<>>, <<>> >>, << <<>>, <<0>>, <<cs>> >>,
                  << <<"ann">>, <<20>>, <<CS>> >>})

SpecStudents == Init /\ [][NextStudents]_vars

\* The chat box alone: the n-th post carries the message n.
NextChat == ChatActions({0, 1}, MaxPosts, {Len(posted) + 1})

SpecChat == Init /\ [][NextChat]_vars

\* ---- claims ----

\* The handlers that declare Depends(get_current_user).
AuthOps == {"list_users", "delete_user", "suspend_user", "unsuspend_user",
            "change_user_role", "create_student", "list_students", "get_student",
            "update_student", "delete_student", "post_chat_message"}

LoginAccepted == req.op = "login" /\ resp.status = 200

\* C1 as stated: after a successful login by u, the token u held before that
\* login is rejected as Unauthenticated.
C1_LoginInvalidatesOldToken ==
  [][LoginAccepted' =>
       \A u \in users : u.username = Lower(req'.username) =>
         \A v \in users' : v.api_key # u.api_key]_vars

\* C1 amended: at most one token per user is live at any time, and a login
\* issues none: it returns the user's stored token, no user record changes, and
\* the token the user held before the login still resolves to that user.
C1_LoginKeepsToken ==
  /\ [](\A j, k \in 1..nextKey :
          (\E u \in users : u.api_key = j /\
             \E v \in users : v.api_key = k /\ u.username = v.username) => j = k)
  /\ [][LoginAccepted' =>
          /\ users' = users
          /\ \E u \in users :
               /\ u.username = Lower(req'.username)
               /\ resp'.api_key = u.api_key
               /\ resp'.role = u.role
               /\ \A v \in users' : v.api_key = u.api_key => v = u]_vars

\* A registered user logs in and is handed the token of its registration.
C1_Witness ==
  /\ LoginAccepted
  /\ \E u \in users : /\ u.username = Lower(req.username)
                      /\ u.role = ROLE_GUEST
                      /\ u.api_key = resp.api_key
                      /\ u.api_key > 1

CreateAccepted == req.op = "create_student" /\ resp.status = 200

\* C2 as stated: create_student gives the new record the smallest positive
\* integer that is the id of no stored student.
C2_SmallestUnusedId ==
  [][CreateAccepted' =>
       \E n \in resp'.students :
         /\ \A s \in students : s.id # n.id
         /\ \A m \in 1..(n.id - 1) : \E s \in students : s.id = m]_vars

\* C2 amended: create_student gives the new record one more than the largest
\* stored id, 1 when no student is stored, so a gap below the largest id is
\* not reused; no two stored students share an id.
C2_NextIdAboveLargest ==
  /\ [](\A s, t \in students : s.id = t.id => s = t)
  /\ [][CreateAccepted' =>
          \E n \in resp'.students :
            /\ students' = students \cup {n}
            /\ n.id >= 1
            /\ \A s \in students : s.id < n.id
            /\ n.id = 1 \/ \E s \in students : s.id = n.id - 1]_vars

\* A create after student 1 was deleted: the new id is 3 and 1 stays unused.
C2_Witness ==
  /\ CreateAccepted
  /\ \E n \in resp.students : n.id = 3
  /\ \A s \in students : s.id # 1

\* C3 as stated: every operation but register and login, reading the chat log
\* included, answers a missing or unknown token with 401 and no stored data.
C3_EveryOperationNeedsToken ==
  (/\ req.op \in AuthOps \cup {"get_chat_messages"}
   /\ req.api_key = 0 \/ \A u \in users : u.api_key # req.api_key)
  => /\ resp.status = 401
     /\ resp.users = {}
     /\ resp.students = {}
     /\ resp.chat = <<>>

Min(a, b) == IF a < b THEN a ELSE b

\* C4: the retained log is the last min(n, 200) of the n messages posted, in
\* arrival order, and a read returns the last min(n, 100) of them.
C4_ChatRetention ==
  LET n == Len(posted)
      kept == Min(n, ChatCap)
      shown == Min(n, ChatWindow)
  IN /\ Len(chat_messages) = kept
     /\ \A i \in 1..kept : chat_messages[i] = posted[n - kept + i]
     /\ req.op = "get_chat_messages" =>
          /\ Len(resp.chat) = shown
          /\ \A i \in 1..shown : resp.chat[i] = posted[n - shown + i]

\* 205 posts, then a read: messages 6..205 are retained, 106..205 returned.
C4_Witness ==
  /\ Len(posted) = 205
  /\ req.op = "get_chat_messages"
  /\ chat_messages[1].message = 6
  /\ resp.chat[1].message = 106
  /\ resp.chat[Len(resp.chat)].message = 205

\* C5: exactly one user has the Owner role: the bootstrap account, which
\* exists, is not suspended and keeps its password and key.
C5_SingleOwner ==
  \E o \in users :
    /\ o = [username |-> OwnerName,
            hashed_password |-> hash_password(OwnerPassword),
            role |-> ROLE_OWNER, api_key |-> 1, suspended |-> FALSE]
    /\ \A u \in users : u.role = ROLE_OWNER => u = o

\* The Owner asked for its own role to become Guest and was refused.
C5_Witness ==
  /\ req.op = "change_user_role"
  /\ req.api_key = 1
  /\ Lower(req.username) = OwnerName
  /\ req.new_role = ROLE_GUEST
  /\ resp.status = 403

StudentWrites == {"create_student", "update_student", "delete_student"}

\* C6: a student write by a Guest is refused with 403 and changes no student,
\* whether or not the id exists; by a VIP or the Owner it succeeds (on a stored
\* id for update and delete).  The role is the one stored when the call is made.
C6_StudentWritesByRole ==
  [][\A u \in users :
       (/\ req'.op \in StudentWrites
        /\ req'.api_key # 0
        /\ u.api_key = req'.api_key
        /\ ~u.suspended)
       => IF u.role = ROLE_GUEST
          THEN resp'.status = 403 /\ students' = students
          ELSE /\ u.role \in {ROLE_VIP, ROLE_OWNER}
               /\ req'.op = "create_student" =>
                    /\ resp'.status = 200
                    /\ students' = students \cup resp'.students
                    /\ \E n \in resp'.students :
                         /\ n \notin students
                         /\ <<n.name>> = req'.name
                         /\ <<n.age>> = req'.age
                         /\ <<n.course>> = req'.course
               /\ (req'.op = "update_student" /\
                   \E s \in students : s.id = req'.student_id) =>
                    /\ resp'.status = 200
                    /\ resp'.students \subseteq students'
                    /\ \E n \in resp'.students :
                         /\ n.id = req'.student_id
                         /\ req'.age # <<>> => <<n.age>> = req'.age
                         /\ {s \in students' : s.id # n.id}
                              = {s \in students : s.id # n.id}
               /\ (req'.op = "delete_student" /\
                   \E s \in students : s.id = req'.student_id) =>
                    /\ resp'.status = 200
                    /\ students' = {s \in students : s.id # req'.student_id}]_vars

\* A user who registered (as Guest) and was made VIP updates a student.
C6_Witness ==
  /\ req.op = "update_student"
  /\ resp.status = 200
  /\ \E u \in users : /\ u.api_key = req.api_key
                      /\ u.role = ROLE_VIP
  /\ \E s \in students : s.id = req.student_id /\ <<s.age>> = req.age

Unchanged == UNCHANGED <<users, students, chat_messages>>

\* C7 as stated: while u is suspended every login by u and every request that
\* get_current_user resolves to u is refused with 403 and changes no state.
C7_SuspendedAlwaysForbidden ==
  [][\A u \in users :
       (/\ u.suspended
        /\ \/ req'.op = "login" /\ Lower(req'.username) = u.username
           \/ req'.op \in AuthOps /\ req'.api_key = u.api_key)
       => resp'.status = 403 /\ Unchanged]_vars

\* C7 amended: while u is suspended a login by u is refused, with 403 when the
\* password is right and with 401 when it is wrong, and every request that
\* get_current_user resolves to u is refused with 403; none changes state.
\* unsuspend_user clears the flag and keeps password and token, and a user who
\* is not suspended logs in with the right password and lists students.
C7_SuspendedRefused ==
  [][\A u \in users :
       /\ (u.suspended /\ req'.op = "login" /\ Lower(req'.username) = u.username)
          => /\ resp'.status
                  = IF u.hashed_password = hash_password(req'.password)
                    THEN 403 ELSE 401
             /\ Unchanged
       /\ (u.suspended /\ req'.op \in AuthOps /\ req'.api_key = u.api_key)
          => resp'.status = 403 /\ Unchanged
       /\ (/\ req'.op = "unsuspend_user"
           /\ resp'.status = 200
           /\ Lower(req'.username) = u.username)
          => users' = (users \ {u}) \cup {[u EXCEPT !.suspended = FALSE]}
       /\ (/\ ~u.suspended
           /\ req'.op = "login"
           /\ Lower(req'.username) = u.username
           /\ u.hashed_password = hash_password(req'.password))
          => resp'.status = 200 /\ resp'.api_key = u.api_key
       /\ (~u.suspended /\ req'.op = "list_students" /\ req'.api_key = u.api_key)
          => resp'.status = 200]_vars

\* A suspended user logs in with the right password and gets 403.
C7_Witness ==
  /\ req.op = "login"
  /\ resp.status = 403
  /\ \E u \in users : /\ u.username = Lower(req.username)
                      /\ u.suspended
                      /\ u.hashed_password = hash_password(req.password)

\* C8: stored usernames are lowercase and unique without regard to case; a
\* register whose lowercased name is stored is refused with 400 and changes no
\* user; any other register stores exactly one new user, a Guest that is not
\* suspended, and returns its token and role.
C8_UsernamesUnique ==
  /\ [](\A u, v \in users :
          /\ u.username = Lower(u.username)
          /\ Lower(u.username) = Lower(v.username) => u = v)
  /\ [][req'.op = "register" =>
          IF \E u \in users : Lower(u.username) = Lower(req'.username)
          THEN resp'.status = 400 /\ users' = users
          ELSE /\ resp'.status = 200
               /\ \E n \in users' :
                    /\ n \notin users
                    /\ users' = users \cup {n}
                    /\ n.username = Lower(req'.username)
                    /\ n.hashed_password = hash_password(req'.password)
                    /\ n.role = ROLE_GUEST
                    /\ ~n.suspended
                    /\ \A u \in users : u.api_key # n.api_key
                    /\ resp'.api_key = n.api_key
                    /\ resp'.role = ROLE_GUEST]_vars

\* "Anirudh" is refused: its lowercase form is the bootstrap Owner's name.
C8_Witness ==
  /\ req.op = "register"
  /\ req.username = OwnerNameCaps
  /\ resp.status = 400
  /\ Cardinality(users) = 3

\* C9 as stated: list_students returns exactly the students that match every
\* filter supplied, the course without regard to case, the age for any value.
C9_ListMatchesFilters ==
  (req.op = "list_students" /\ resp.status = 200) =>
    resp.students =
      {s \in students :
         /\ req.course # <<>> => Lower(s.course) = Lower(req.course[1])
         /\ req.age # <<>> => s.age = req.age[1]}

Restarted == req.op = "on_startup"

\* C10 as stated: a restart keeps the users, the students and the chat log.
C10_RestartKeepsAll ==
  [][Restarted' =>
       /\ users' = users
       /\ students' = students
       /\ chat_messages' = chat_messages]_vars

\* C10 amended: a restart keeps the users (roles, suspended flags, tokens) and
\* the students, and creates or resets no Owner; the chat log is empty after it.
C10_RestartKeepsTables ==
  [][Restarted' =>
       /\ users' = users
       /\ students' = students
       /\ chat_messages' = <<>>
       /\ Cardinality({u \in users' : u.role = ROLE_OWNER}) = 1]_vars

\* A restart with a suspended user and a student in the tables.
C10_Witness ==
  /\ Restarted
  /\ students # {}
  /\ \E u \in users : u.suspended
  /\ chat_messages = <<>>

====
